---- MODULE Spec2Model ----
(***************************************************************************)
(* QRDetector.detect (src/qrdet/qrdet.py): post-processing of the raw      *)
(* segmentation output: confidence filter, stable sort, greedy NMS,        *)
(* output assembly (clipping, normalisation, quadrilateral fit).           *)
(*                                                                         *)
(* Numbers.  Scores, IoU values and thresholds are tenths (5 = 0.5).       *)
(* Pixel coordinates are integers (the raw rows are chosen so that the     *)
(* rescaling by img/640 is exact).  A normalised value is a rational       *)
(* <<num, den>> with den > 0.                                              *)
(***************************************************************************)
EXTENDS Integers, Sequences, FiniteSets

VARIABLES conf_th, nms_iou,        \* QRDetector._conf_th, ._nms_iou
          img_width, img_height,   \* shape of the image given to detect
          probs,                   \* scores of the rows read so far
          objects,                 \* the candidate list
          sorted,                  \* objects as left by the sort (history)
          results,                 \* candidates accepted by the NMS loop
          detections,              \* detection records built so far
          pc                       \* position in detect

vars == <<conf_th, nms_iou, img_width, img_height,
          probs, objects, sorted, results, detections, pc>>

\* ---------------------------------------------------------------- bounds
MaxRows == 3        \* anchor rows in the raw output (full pipeline)
MaxCands == 4       \* candidates entering the NMS loop (SpecNms)
MaxOverlaps == 3    \* overlapping candidate pairs (SpecNms)

\* ------------------------------------------------------------- constants
ModelInput == 640   \* side of the model input the raw boxes refer to
DefaultConfTh == 5  \* conf_th = 0.5
DefaultNmsIou == 3  \* nms_iou = 0.3
One == 10           \* 1.0 in tenths: IoU of a region with itself

\* ------------------------------------------------------------ input sets
Scores == {DefaultConfTh - 1, DefaultConfTh, 9}
ConfThs == {DefaultConfTh, 9}
NmsIous == {DefaultNmsIou, 5, One}
IoUValues == {0, DefaultNmsIou, 5}

\* ------------------------------------------------------------- rationals
RatEq(a, b) == a[1] * b[2] = b[1] * a[2]
RatLeq(a, b) == a[1] * b[2] <= b[1] * a[2]
\* x / d  (Python true division)
Div(x, d) == <<x, d>>

\* --------------------------------------------------------------- helpers
Min2(a, b) == IF a < b THEN a ELSE b
Max2(a, b) == IF a > b THEN a ELSE b

\* np.clip(v, a_min, a_max) on a pixel value
Clip(v, lo, hi) == Max2(lo, Min2(v, hi))

\* the normalised value is left as computed
ClipNMissing(r) == r

\* np.clip(r, 0., 1.) on a normalised value
ClipN(r) == IF RatLeq(r, <<0, 1>>) THEN <<0, 1>>
            ELSE IF RatLeq(<<1, 1>>, r) THEN <<1, 1>>
            ELSE r

\* (xc -/+ w/2) / 640 * img_dim, with v2 = 2*xc -/+ w
Rescale(v2, dim) == (v2 * dim) \div (2 * ModelInput)

\* a filter that also drops a score equal to the threshold
DiscardAtThreshold(prob, th) == prob <= th

\* line 142: `if prob < self._conf_th: continue`
Discard(prob, th) == prob < th

\* ------------------------------------------------------------ raw rows
\* A raw row: score, box (xc, yc, w, h) in model-input space, the polygon
\* traced from its decoded mask (<<>> when the mask has no foreground), and
\* ov: the IoU of its polygon with the polygon of each earlier candidate.
DefaultBox == [xc |-> 320, yc |-> 320, w |-> 640, h |-> 640]

RectPoly(bw, bh) == << <<0, 0>>, <<bw, 0>>, <<bw, bh>>, <<0, bh>> >>
WedgePoly(bw, bh) == << <<0, 0>>, <<bw, 0>>, <<bw, bh>>, <<bw \div 2, bh \div 2>> >>

\* the candidate list entry built at line 155: [x1, y1, x2, y2, label, prob, polygon]
\* id is the anchor-row index (object identity).  ov gives the IoU of this
\* candidate's region with each earlier candidate: the overlaps are an input
\* of their own, read by iou, and are not derived from the box and polygon
\* fields (Spec and SpecNms give every candidate the same box and polygon).
MakeObject(id, prob, box, polygon, ov, iw, ih) ==
    [ id |-> id,
      x1 |-> Rescale(2 * box.xc - box.w, iw),
      y1 |-> Rescale(2 * box.yc - box.h, ih),
      x2 |-> Rescale(2 * box.xc + box.w, iw),
      y2 |-> Rescale(2 * box.yc + box.h, ih),
      prob |-> prob,
      polygon |-> polygon,
      ov |-> ov ]

\* qrdet.iou(a, b): polygon IoU, a function of the two candidates' regions
iou(a, b) == IF a.id = b.id THEN One
             ELSE IF a.id > b.id THEN a.ov[b.id] ELSE b.ov[a.id]

\* -------------------------------------------------------------- the sort
\* objects.sort(key=lambda x: x[5], reverse=True): stable, descending
InsertDesc(s, x) ==
    LET p == Cardinality({j \in 1..Len(s) : s[j].prob >= x.prob})
    IN SubSeq(s, 1, p) \o <<x>> \o SubSeq(s, p + 1, Len(s))

RECURSIVE SortFrom(_, _)
SortFrom(acc, s) == IF s = <<>> THEN acc
                    ELSE SortFrom(InsertDesc(acc, Head(s)), Tail(s))

\* a sort that is not stable: ascending stable sort, then reversed
InsertAsc(s, x) ==
    LET p == Cardinality({j \in 1..Len(s) : s[j].prob <= x.prob})
    IN SubSeq(s, 1, p) \o <<x>> \o SubSeq(s, p + 1, Len(s))

RECURSIVE SortAscFrom(_, _)
SortAscFrom(acc, s) == IF s = <<>> THEN acc
                       ELSE SortAscFrom(InsertAsc(acc, Head(s)), Tail(s))

SortDescUnstable(s) ==
    LET a == SortAscFrom(<<>>, s)
    IN [j \in 1..Len(a) |-> a[Len(a) + 1 - j]]

SortDesc(s) == SortFrom(<<>>, s)

\* --------------------------------------------------------------- the NMS
\* [object for object in objects if iou(object, objects[0]) < nms_iou]
\* the head is dropped, the others are kept when they overlap it
NmsFilterInverted(objs, th) ==
    SelectSeq(Tail(objs), LAMBDA o : ~(iou(o, objs[1]) < th))

\* only the accepted head is dropped, nothing is suppressed
NmsFilterPopOnly(objs, th) == Tail(objs)

\* a candidate whose IoU equals the threshold is kept
NmsFilterKeepEqual(objs, th) == SelectSeq(objs, LAMBDA o : iou(o, objs[1]) <= th)

NmsFilter(objs, th) == SelectSeq(objs, LAMBDA o : iou(o, objs[1]) < th)

\* lines 160-163 run to the end on objs with threshold th; fuel bounds the
\* number of iterations evaluated
RECURSIVE NmsLoop(_, _, _)
NmsLoop(objs, th, fuel) ==
    IF Len(objs) = 0 \/ fuel = 0 THEN <<>>
    ELSE <<objs[1]>> \o NmsLoop(NmsFilter(objs, th), th, fuel - 1)

NmsRun(objs, th) == NmsLoop(objs, th, Len(objs))

\* ------------------------------------------------------ geometry helpers
RECURSIVE MinOf(_, _)
MinOf(s, k) == IF Len(s) = 1 THEN s[1][k] ELSE Min2(s[1][k], MinOf(Tail(s), k))

RECURSIVE MaxOf(_, _)
MaxOf(s, k) == IF Len(s) = 1 THEN s[1][k] ELSE Max2(s[1][k], MaxOf(Tail(s), k))

\* axis-aligned bounding rectangle of a polygon, as 4 vertices
BRect(P) == << <<MinOf(P, 1), MinOf(P, 2)>>, <<MaxOf(P, 1), MinOf(P, 2)>>,
               <<MaxOf(P, 1), MaxOf(P, 2)>>, <<MinOf(P, 1), MaxOf(P, 2)>> >>

Cross(a, b, p) == (b[1] - a[1]) * (p[2] - a[2]) - (b[2] - a[2]) * (p[1] - a[1])

\* p lies inside or on the boundary of the convex region of the 4-gon Q
InQuad(p, Q) ==
    LET c == [j \in 1..4 |-> Cross(Q[j], Q[(j % 4) + 1], p)]
    IN \/ \A j \in 1..4 : c[j] >= 0
       \/ \A j \in 1..4 : c[j] <= 0

\* QuadrilateralFitter(polygon).fit(...) and .expanded_quadrilateral: the
\* results the fitter may give for polygon P.  The tight quadrilateral is P
\* itself when P has 4 vertices, or P's bounding rectangle; the expanded
\* one is a quadrilateral that contains every vertex of P and of the tight one.
FitResults(P) ==
    LET tight == {BRect(P)} \cup (IF Len(P) = 4 THEN {P} ELSE {})
    IN UNION { { [quad |-> q, expanded |-> e] : e \in {q, BRect(P)} } : q \in tight }

\* ------------------------------------------------------- output assembly
\* lines 185-194: the polygon of a result moved to image coordinates
UnclippedPolygon(result) ==
    [j \in 1..Len(result.polygon) |->
        <<result.polygon[j][1] + result.x1, result.polygon[j][2] + result.y1>>]

\* one iteration of `for result in results` (lines 173-241)
MakeDetection(result, fit, im_w, im_h) ==
    LET x1 == result.x1
        y1 == result.y1
        x2 == result.x2
        y2 == result.y2
        cx == (x1 + x2) \div 2
        cy == (y1 + y2) \div 2
        bbox_w == x2 - x1
        bbox_h == y2 - y1
        polygon == UnclippedPolygon(result)
    IN [ confidence |-> result.prob,
         bbox_xyxy |-> <<Clip(x1, 0, im_w), Clip(y1, 0, im_h),
                         Clip(x2, 0, im_w), Clip(y2, 0, im_h)>>,
         bbox_xyxyn |-> <<ClipN(Div(x1, im_w)), ClipN(Div(y1, im_h)),
                          ClipN(Div(x2, im_w)), ClipN(Div(y2, im_h))>>,
         cxcy |-> <<cx, cy>>,
         cxcyn |-> <<Div(cx, im_w), Div(cy, im_h)>>,
         wh |-> <<bbox_w, bbox_h>>,
         whn |-> <<Div(bbox_w, im_w), Div(bbox_h, im_h)>>,
         polygon_xy |-> [j \in 1..Len(polygon) |->
                           <<Clip(polygon[j][1], 0, im_w), Clip(polygon[j][2], 0, im_h)>>],
         polygon_xyn |-> [j \in 1..Len(polygon) |->
                           <<ClipN(Div(polygon[j][1], im_w)),
                             ClipN(Div(polygon[j][2], im_h))>>],
         quadrilateral_xy |-> fit.quad,
         quadrilateral_xyn |-> [j \in 1..4 |->
                           <<Div(fit.quad[j][1], im_w), Div(fit.quad[j][2], im_h)>>],
         expanded_quadrilateral_xy |-> fit.expanded,
         expanded_quadrilateral_xyn |-> [j \in 1..4 |->
                           <<Div(fit.expanded[j][1], im_w), Div(fit.expanded[j][2], im_h)>>],
         image_shape |-> <<im_h, im_w>> ]

\* ------------------------------------------------------------------ Init
\* The detector is constructed with (conf_th, nms_iou); detect is entered
\* with an image of img_width x img_height and no row read yet.
Init ==
    /\ conf_th \in ConfThs
    /\ nms_iou \in NmsIous
    /\ img_width = 4
    /\ img_height = 2
    /\ probs = <<>>
    /\ objects = <<>>
    /\ sorted = <<>>
    /\ results = <<>>
    /\ detections = <<>>
    /\ pc = "rows"

Ids(objs) == {objs[j].id : j \in 1..Len(objs)}

\* --------------------------------------------------------------- actions
\* lines 140-143: a row whose score is below conf_th is skipped
SkipRow ==
    /\ pc = "rows"
    /\ Len(probs) < MaxRows
    /\ \E prob \in Scores :
          /\ Discard(prob, conf_th)
          /\ probs' = Append(probs, prob)
    /\ UNCHANGED <<conf_th, nms_iou, img_width, img_height, sorted, objects, results,
                   detections, pc>>

\* lines 140-155: a row that passes the filter becomes a candidate
KeepRow ==
    /\ pc = "rows"
    /\ Len(probs) < MaxRows
    /\ \E prob \in Scores, ov \in [Ids(objects) -> IoUValues] :
          /\ ~Discard(prob, conf_th)
          /\ probs' = Append(probs, prob)
          /\ objects' = Append(objects,
                 MakeObject(Len(probs) + 1, prob, DefaultBox,
                            RectPoly(img_width, img_height), ov,
                            img_width, img_height))
    /\ UNCHANGED <<conf_th, nms_iou, img_width, img_height, sorted, results,
                   detections, pc>>

\* lines 153-154: the decoded mask of a row that passes the filter has no
\* foreground; get_polygon fails and nothing in detect catches it
EmptyMaskRow ==
    /\ pc = "rows"
    /\ Len(probs) < MaxRows
    /\ \E prob \in Scores :
          /\ ~Discard(prob, conf_th)
          /\ probs' = Append(probs, prob)
    /\ pc' = "raised"
    /\ UNCHANGED <<conf_th, nms_iou, img_width, img_height, sorted, objects, results,
                   detections>>

\* line 157, at the end of the rows
SortObjects ==
    /\ pc = "rows"
    /\ objects' = SortDesc(objects)
    /\ sorted' = objects'
    /\ pc' = "nms"
    /\ UNCHANGED <<conf_th, nms_iou, img_width, img_height, probs, results,
                   detections>>

\* lines 161-163: one iteration of the NMS loop
NmsStep ==
    /\ pc = "nms"
    /\ Len(objects) > 0
    /\ Len(results) <= MaxRows + MaxCands   \* cap on a loop that does not end
    /\ results' = Append(results, objects[1])
    /\ objects' = NmsFilter(objects, nms_iou)
    /\ UNCHANGED <<conf_th, nms_iou, img_width, img_height, sorted, probs,
                   detections, pc>>

\* lines 161, 167-168: the loop ends; with no result detect returns []
NmsExit ==
    /\ pc = "nms"
    /\ ~(Len(objects) > 0)
    /\ pc' = IF Len(results) = 0 THEN "returned" ELSE "assemble"
    /\ UNCHANGED <<conf_th, nms_iou, img_width, img_height, sorted, probs, objects,
                   results, detections>>

\* lines 173-241: the next result is turned into a detection record
AssembleOne ==
    /\ pc = "assemble"
    /\ Len(detections) < Len(results)
    /\ LET result == results[Len(detections) + 1]
       IN \E fit \in FitResults(UnclippedPolygon(result)) :
             detections' = Append(detections,
                 MakeDetection(result, fit, img_width, img_height))
    /\ UNCHANGED <<conf_th, nms_iou, img_width, img_height, sorted, probs, objects,
                   results, pc>>

\* lines 200-204: the fitter raises; nothing in detect catches it
FitFails ==
    /\ pc = "assemble"
    /\ Len(detections) < Len(results)
    /\ pc' = "raised"
    /\ UNCHANGED <<conf_th, nms_iou, img_width, img_height, sorted, probs, objects,
                   results, detections>>

\* line 245
Return ==
    /\ pc = "assemble"
    /\ Len(detections) = Len(results)
    /\ pc' = "returned"
    /\ UNCHANGED <<conf_th, nms_iou, img_width, img_height, sorted, probs, objects,
                   results, detections>>

Next ==
    \/ SkipRow
    \/ KeepRow
    \/ EmptyMaskRow
    \/ SortObjects
    \/ NmsStep
    \/ NmsExit
    \/ AssembleOne
    \/ FitFails
    \/ Return

Spec == Init /\ [][Next]_vars

\* ----------------------------------------------- the NMS loop on its own
\* detect just after the sort, with up to MaxCands candidates of one score
\* (so the stable sort left them in row order) and every overlap table
\* with at most MaxOverlaps overlapping pairs.
Pairs(k) == {pr \in (1..k) \X (1..k) : pr[1] > pr[2]}

OverlapTables(k) ==
    {t \in [Pairs(k) -> IoUValues] :
        Cardinality({pr \in Pairs(k) : t[pr] # 0}) <= MaxOverlaps}

InitNms ==
    /\ conf_th = DefaultConfTh
    /\ nms_iou \in NmsIous
    /\ img_width = 4
    /\ img_height = 2
    /\ \E k \in 1..MaxCands : \E t \in OverlapTables(k) :
          /\ probs = [j \in 1..k |-> 9]
          /\ objects = [j \in 1..k |->
                MakeObject(j, 9, DefaultBox, RectPoly(img_width, img_height),
                           [b \in 1..(j - 1) |-> t[<<j, b>>]],
                           img_width, img_height)]
    /\ sorted = objects
    /\ results = <<>>
    /\ detections = <<>>
    /\ pc = "nms"

NextNms == NmsStep \/ NmsExit

SpecNms == InitNms /\ [][NextNms]_vars

\* ------------------------------------------- output assembly on its own
\* detect after the NMS loop with one result, for every box position
\* (inside, across and outside the frame) and two polygon shapes.
ImageShapes == {<<4, 2>>, <<2, 4>>}

GeoBoxes == [xc : {0, 320, 640, 960}, yc : {0, 320, 640}, w : {640, 1280}, h : {640, 1280}]

GeoPolys(bw, bh) == {RectPoly(bw, bh), WedgePoly(bw, bh)}

InitGeo ==
    /\ conf_th = DefaultConfTh
    /\ nms_iou = DefaultNmsIou
    /\ \E shape \in ImageShapes :
          /\ img_width = shape[1]
          /\ img_height = shape[2]
    /\ probs = <<9>>
    /\ objects = <<>>
    /\ \E box \in GeoBoxes :
       \E poly \in GeoPolys(Rescale(2 * box.w, img_width), Rescale(2 * box.h, img_height)) :
          results = <<MakeObject(1, 9, box, poly, <<>>, img_width, img_height)>>
    /\ sorted = results
    /\ detections = <<>>
    /\ pc = "assemble"

NextGeo == AssembleOne \/ FitFails \/ Return

SpecGeo == InitGeo /\ [][NextGeo]_vars

\* ================================================================ claims
Finished == pc \in {"assemble", "returned"}

\* C1: the sequence returned by detect is in NMS survivor order: one record
\* per accepted candidate, confidences non-increasing along the output, and
\* two survivors of equal confidence in their anchor-row order (the order of
\* the stable descending sort).
C1_SurvivorOrder ==
    pc = "returned" =>
        /\ Len(detections) = Len(results)
        /\ \A j \in 1..Len(results) : detections[j].confidence = results[j].prob
        /\ \A j, k \in 1..Len(results) :
              j < k => \/ results[j].prob > results[k].prob
                       \/ /\ results[j].prob = results[k].prob
                          /\ results[j].id < results[k].id
        /\ \A j \in 1..Len(results) : \E k \in 1..Len(sorted) : sorted[k] = results[j]

\* a returned output with a tie placed after a higher score read later
C1_Witness ==
    /\ pc = "returned"
    /\ Len(detections) = 3
    /\ results[1].id = 3
    /\ detections[2].confidence = detections[3].confidence
    /\ detections[1].confidence > detections[2].confidence

C4_ConfidenceFilter ==
    /\ pc = "rows" =>
          \A r \in 1..Len(probs) : (probs[r] >= conf_th) <=> (r \in Ids(objects))
    /\ \A j \in 1..Len(detections) : detections[j].confidence >= conf_th
    /\ (pc \in {"assemble", "returned"} /\ \A r \in 1..Len(probs) : probs[r] < conf_th) =>
          (pc = "returned" /\ detections = <<>>)

\* a row below conf_th was dropped and a row scoring exactly conf_th was returned
C4_Witness ==
    /\ pc = "returned"
    /\ \E r \in 1..Len(probs) : probs[r] < conf_th
    /\ \E j \in 1..Len(detections) : detections[j].confidence = conf_th

\* C5 as stated: in an iteration of the NMS loop a remaining candidate other
\* than the accepted one is removed if and only if its IoU with the accepted
\* candidate is strictly higher than nms_iou (an IoU equal to it stays).
C5_RemovedIffAbove ==
    [][(pc = "nms" /\ Len(objects) > 0 /\ results' = Append(results, objects[1])) =>
          \A j \in 2..Len(objects) :
              (objects[j].id \notin Ids(objects')) <=>
              (iou(objects[j], objects[1]) > nms_iou)]_vars

\* C9 as stated: a failure on one candidate (empty mask, fit failure) never
\* aborts the call; detect never ends by raising.
C9_FailureLocal == pc # "raised"

\* C10: the NMS loop terminates: every iteration moves the accepted candidate
\* out of the remaining list, so accepted plus remaining never exceed the n
\* sorted candidates (at most n iterations), no candidate is accepted twice,
\* and the loop is left with nothing remaining.
C10_NmsTerminates ==
    pc # "rows" =>
        /\ Len(results) + Len(objects) <= Len(sorted)
        /\ \A j, k \in 1..Len(results) : j # k => results[j].id # results[k].id
        /\ Ids(results) \cap Ids(objects) = {}
        /\ Finished => objects = <<>>

\* the loop took n = MaxCands iterations at the largest threshold, 1.0
C10_Witness ==
    /\ Finished
    /\ nms_iou = One
    /\ Len(sorted) = MaxCands
    /\ Len(results) = MaxCands

\* ---------------------------------------------- claims on the output record
\* the image dimension that divides coordinate k of a point (1 = x, 2 = y)
Dim(k) == IF k = 1 THEN img_width ELSE img_height

\* the pixel point p and the normalised point n are p / (img_width, img_height)
PointPair(p, n) == \A k \in 1..2 : RatEq(n[k], Div(p[k], Dim(k)))

PointsPair(P, N) == Len(P) = Len(N) /\ \A j \in 1..Len(P) : PointPair(P[j], N[j])

InFrame(p) == \A k \in 1..2 : 0 <= p[k] /\ p[k] <= Dim(k)

InUnit(n) == \A k \in 1..2 : RatLeq(<<0, 1>>, n[k]) /\ RatLeq(n[k], <<1, 1>>)

\* C3 as stated: every vertex of the reported (clipped) polygon_xy lies
\* inside or on the boundary of the convex region of the reported
\* expanded_quadrilateral_xy, the fitter having returned an expanded
\* quadrilateral that contains the unclipped polygon.
C3_ExpandedContainsPolygon ==
    \A j \in 1..Len(detections) :
        \A v \in 1..Len(detections[j].polygon_xy) :
            InQuad(detections[j].polygon_xy[v], detections[j].expanded_quadrilateral_xy)

\* C6: in every detection each normalised field equals the reported pixel
\* field divided component-wise by (image_width, image_height), also for
\* boxes and polygon points that were clipped.
C6_NormalizedIsPixelOverShape ==
    \A j \in 1..Len(detections) :
        LET d == detections[j]
        IN /\ PointPair(<<d.bbox_xyxy[1], d.bbox_xyxy[2]>>, <<d.bbox_xyxyn[1], d.bbox_xyxyn[2]>>)
           /\ PointPair(<<d.bbox_xyxy[3], d.bbox_xyxy[4]>>, <<d.bbox_xyxyn[3], d.bbox_xyxyn[4]>>)
           /\ PointPair(d.cxcy, d.cxcyn)
           /\ PointPair(d.wh, d.whn)
           /\ PointsPair(d.polygon_xy, d.polygon_xyn)
           /\ PointsPair(d.quadrilateral_xy, d.quadrilateral_xyn)
           /\ PointsPair(d.expanded_quadrilateral_xy, d.expanded_quadrilateral_xyn)

\* a returned detection whose box and polygon were clipped on both sides in x
C6_Witness ==
    /\ pc = "returned"
    /\ Len(detections) = 1
    /\ results[1].x1 < 0
    /\ results[1].x2 > img_width
    /\ detections[1].bbox_xyxy[1] = 0
    /\ detections[1].bbox_xyxy[3] = img_width
    /\ \E v \in 1..Len(detections[1].polygon_xy) :
          detections[1].polygon_xy[v] # UnclippedPolygon(results[1])[v]

\* C7 as stated: every pixel field except the expanded quadrilateral lies in
\* [0, image_width] x [0, image_height] and every normalised field except
\* the normalised expanded quadrilateral lies in [0, 1].
C7_FieldsInFrame ==
    \A j \in 1..Len(detections) :
        LET d == detections[j]
        IN /\ InFrame(<<d.bbox_xyxy[1], d.bbox_xyxy[2]>>)
           /\ InFrame(<<d.bbox_xyxy[3], d.bbox_xyxy[4]>>)
           /\ InFrame(d.cxcy)
           /\ InFrame(d.wh)
           /\ \A v \in 1..Len(d.polygon_xy) : InFrame(d.polygon_xy[v])
           /\ \A v \in 1..4 : InFrame(d.quadrilateral_xy[v])
           /\ InUnit(<<d.bbox_xyxyn[1], d.bbox_xyxyn[2]>>)
           /\ InUnit(<<d.bbox_xyxyn[3], d.bbox_xyxyn[4]>>)
           /\ InUnit(d.cxcyn)
           /\ InUnit(d.whn)
           /\ \A v \in 1..Len(d.polygon_xyn) : InUnit(d.polygon_xyn[v])
           /\ \A v \in 1..4 : InUnit(d.quadrilateral_xyn[v])

\* C8 as stated: the reported cxcy is the centre of the reported bbox_xyxy
\* and the reported wh is its width and height.
C8_CenterAndSizeOfReportedBox ==
    \A j \in 1..Len(detections) :
        LET d == detections[j]
            b == d.bbox_xyxy
        IN /\ 2 * d.cxcy[1] = b[1] + b[3]
           /\ 2 * d.cxcy[2] = b[2] + b[4]
           /\ d.wh[1] = b[3] - b[1]
           /\ d.wh[2] = b[4] - b[2]

\* position of candidate c in the sorted list (0 when absent)
Rank(c) == IF \E k \in 1..Len(sorted) : sorted[k].id = c.id
           THEN CHOOSE k \in 1..Len(sorted) : sorted[k].id = c.id
           ELSE 0

====
